---- MODULE Spec2Model ----
(***************************************************************************)
(* The player entity of pydew (src/code/player.py): one update(dt) per     *)
(* frame runs input -> set_status -> update_timers -> set_target_pos ->    *)
(* move (with axis-separated collision) -> animate.                        *)
(*                                                                         *)
(* Number representation.  Python floats are modelled in fixed point:      *)
(*   pos          thousandths of a pixel                                   *)
(*   direction    thousandths (1000 is 1.0; a normalised diagonal          *)
(*                component, 1/sqrt(2), is 707)                            *)
(*   frame_index  thousandths of a frame                                   *)
(*   dt           milliseconds (the frame time; the source's dt is the     *)
(*                same time in seconds)                                    *)
(* pygame.Rect coordinates are integers, as in pygame.                     *)
(* A status string is the sequence of its '_'-separated parts:             *)
(* 'left_idle' is <<"left", "idle">>, 'left' is <<"left">>.                *)
(***************************************************************************)
EXTENDS Integers, Sequences, FiniteSets

VARIABLES
    status,               \* self.status
    frame_index,          \* self.frame_index
    image,                \* self.image, as the (status, index) it was picked by
    rect,                 \* self.rect
    direction,            \* self.direction
    pos,                  \* self.pos
    hitbox,               \* self.hitbox
    timers,               \* self.timers
    tool_index,           \* self.tool_index
    selected_tool,        \* self.selected_tool
    target_pos,           \* self.target_pos
    seed_index,           \* self.seed_index
    selected_seed,        \* self.selected_seed
    seed_inventory,       \* self.seed_inventory
    sleep,                \* self.sleep
    collision_sprites,    \* self.collision_sprites (static)
    tree_sprites,         \* self.tree_sprites (static)
    interactable_sprites, \* self.interactable_sprites (static)
    calls,                \* history: callbacks and collaborator calls of the latest update
    switches,             \* history: successful tool / seed switches so far
    frames                \* history: updates so far, counted up to MaxFrames

vars == <<status, frame_index, image, rect, direction, pos, hitbox, timers,
          tool_index, selected_tool, target_pos, seed_index, selected_seed,
          seed_inventory, sleep, collision_sprites, tree_sprites,
          interactable_sprites, calls, switches, frames>>

----------------------------------------------------------------------------
(* Bounds of the model *)

\* size of the character image (an asset; the hitbox is the image rect inflated)
ImageW == 172
ImageH == 124
\* frames per animation folder (assets): moving folders and the others
FramesMoving == 4
FramesOther == 2
\* the player's pos stays within WorldLo..WorldHi pixels on both axes
WorldLo == 0
WorldHi == 300
\* history counter of switches is kept up to this value
MaxSwitches == 4
\* history counter of updates is kept up to this value
MaxFrames == 3

\* frame times, in milliseconds
DtSet == {100, 400}
MoveDtSet == {100, 400}

----------------------------------------------------------------------------
(* Program constants *)

speed == 250
ToolUseDuration == 350
ToolSwitchDuration == 200
SeedUseDuration == 350
SeedSwitchDuration == 200
CornStock == 5
TomatoStock == 5

tools == <<"hoe", "axe", "water">>
seeds == <<"corn", "tomato">>

\* Python list indexing list[i], from 0
item(list, i) == list[i + 1]

TimerNames == <<"tool use", "tool switch", "seed use", "seed switch">>

AllKeys == {"K_UP", "K_DOWN", "K_LEFT", "K_RIGHT", "K_SPACE", "K_q",
            "K_LCTRL", "K_w", "K_RETURN"}

\* settings.PLAYER_TOOL_OFFSET
PLAYER_TOOL_OFFSET(facing) ==
    CASE facing = "left"  -> [x |-> -50, y |-> 40]
      [] facing = "right" -> [x |-> 50,  y |-> 40]
      [] facing = "up"    -> [x |-> 0,   y |-> -10]
      [] facing = "down"  -> [x |-> 0,   y |-> 50]

----------------------------------------------------------------------------
(* Arithmetic helpers *)

Abs(n) == IF n < 0 THEN -n ELSE n
Sign(n) == IF n < 0 THEN -1 ELSE IF n > 0 THEN 1 ELSE 0

\* C integer division (truncation toward zero), as pygame's Rect arithmetic
TruncDiv(a, b) == Sign(a) * Sign(b) * (Abs(a) \div Abs(b))

\* Python round() of a value given in thousandths: nearest, ties to even
round(m) ==
    LET q == m \div 1000
        r == m % 1000
    IN  IF r < 500 THEN q
        ELSE IF r > 500 THEN q + 1
        ELSE IF q % 2 = 0 THEN q ELSE q + 1

\* Python int() of a non-negative value given in thousandths
int(m) == m \div 1000

----------------------------------------------------------------------------
(* pygame.Rect *)

Rect(x, y, w, h) == [x |-> x, y |-> y, w |-> w, h |-> h]

left(r) == r.x
top(r) == r.y
right(r) == r.x + r.w
bottom(r) == r.y + r.h
centerx(r) == r.x + r.w \div 2
centery(r) == r.y + r.h \div 2
center(r) == [x |-> centerx(r), y |-> centery(r)]

set_left(r, v) == [r EXCEPT !.x = v]
set_right(r, v) == [r EXCEPT !.x = v - r.w]
set_top(r, v) == [r EXCEPT !.y = v]
set_bottom(r, v) == [r EXCEPT !.y = v - r.h]
set_centerx(r, v) == [r EXCEPT !.x = v - r.w \div 2]
set_centery(r, v) == [r EXCEPT !.y = v - r.h \div 2]

\* image.get_rect(center=p)
get_rect(w, h, p) == set_centery(set_centerx(Rect(0, 0, w, h), p.x), p.y)

\* Rect.inflate((dx, dy)): grows about the centre
inflate(r, dx, dy) ==
    Rect(r.x - TruncDiv(dx, 2), r.y - TruncDiv(dy, 2), r.w + dx, r.h + dy)

colliderect(a, b) ==
    /\ left(a) < right(b)
    /\ left(b) < right(a)
    /\ top(a) < bottom(b)
    /\ top(b) < bottom(a)

collidepoint(r, p) ==
    /\ left(r) <= p.x /\ p.x < right(r)
    /\ top(r) <= p.y /\ p.y < bottom(r)

----------------------------------------------------------------------------
(* Status strings *)

\* 'a' + '_' + 'b' for a status prefix a
Join(prefix, part) == Append(prefix, part)

\* status.split('_')[0], as a one-part status
split0(st) == <<Head(st)>>

\* the keys of the animation table
AnimationKeys ==
    {<<f>> : f \in {"up", "down", "left", "right"}}
    \cup {<<f, a>> : f \in {"up", "down", "left", "right"},
                     a \in {"idle", "hoe", "axe", "water"}}

\* len(self.animations[st]); a status that is no key raises KeyError (0 here)
AnimationLen(st) ==
    IF st \notin AnimationKeys THEN 0
    ELSE IF Len(st) = 1 THEN FramesMoving ELSE FramesOther

----------------------------------------------------------------------------
(* Timer (timer.py): activate() and update() *)

Min(a, b) == IF a < b THEN a ELSE b

\* The fields armed, rearmed, ticked and fired are history, not program state:
\*   armed    activate() was called at least once
\*   rearmed  the latest activate() found the timer active
\*   ticked   frame time since the latest activate(), kept up to the duration
\*            (advanced by the frame itself, see Update)
\*   fired    invocations of the callback since the latest activate(), kept
\*            up to 2 (counted by the callback itself)
Timer(duration, func) ==
    [duration |-> duration, func |-> func, active |-> FALSE, elapsed |-> 0,
     armed |-> FALSE, rearmed |-> FALSE, ticked |-> 0, fired |-> 0]

activate(t) ==
    [t EXCEPT !.active = TRUE, !.elapsed = 0,
              !.armed = TRUE, !.rearmed = t.active, !.ticked = 0, !.fired = 0]

\* Timer.update: the timer after the tick, and whether its callback is due
TimerExpires(t, dt) == t.active /\ t.elapsed + dt >= t.duration

TimerUpdate(t, dt) ==
    IF ~t.active THEN t
    ELSE IF TimerExpires(t, dt)
    THEN [t EXCEPT !.active = FALSE, !.elapsed = 0]
    ELSE [t EXCEPT !.elapsed = @ + dt]

\* support.increment_and_modulo
increment_and_modulo(i, n) == (i + 1) % n

----------------------------------------------------------------------------
(* The calls log: the timer callbacks use_tool and use_seed as they are     *)
(* invoked, and the calls to the collaborators (soil_layer, trees,          *)
(* water_sound, toggle_shop), in order, for the latest update.              *)

Call(fn, at, seed, tree) == [fn |-> fn, pos |-> at, seed |-> seed, tree |-> tree]

NoPos == [x |-> 0, y |-> 0]

----------------------------------------------------------------------------
(* Player.  p is the record of the player's fields. *)

RECURSIVE damage_trees(_, _, _)
\* lines 81-83: every tree whose rect contains target_pos is damaged
damage_trees(p, trees, i) ==
    IF i > Len(trees) THEN p
    ELSE damage_trees(
           IF collidepoint(trees[i], p.target_pos)
           THEN [p EXCEPT !.calls = Append(@, Call("tree.damage", p.target_pos, "", i))]
           ELSE p,
           trees, i + 1)

use_tool(p) ==
    LET p1 == IF p.selected_tool = "hoe"
              THEN [p EXCEPT !.calls =
                      Append(@, Call("soil_layer.get_hit", p.target_pos, "", 0))]
              ELSE p
        p2 == IF p1.selected_tool = "axe"
              THEN damage_trees(p1, tree_sprites, 1)
              ELSE p1
        p3 == IF p2.selected_tool = "water"
              THEN [p2 EXCEPT !.calls =
                      Append(Append(@, Call("water_sound.play", NoPos, "", 0)),
                             Call("soil_layer.water", p2.target_pos, "", 0))]
              ELSE p2
    IN  [p3 EXCEPT !.timers["tool use"].fired = Min(@ + 1, 2),
                   !.calls = <<Call("use_tool", p.target_pos, "", 0)>> \o @]

\* mutant: the stock is not checked
use_seed_unchecked(p) ==
    [p EXCEPT !.calls = <<Call("use_seed", p.target_pos, "", 0),
                          Call("soil_layer.plant_seed", p.target_pos,
                               p.selected_seed, 0)>> \o @,
              !.seed_inventory[p.selected_seed] = @ - 1,
              !.timers["seed use"].fired = Min(@ + 1, 2)]

use_seed(p) ==
    LET p1 == IF p.seed_inventory[p.selected_seed] > 0
              THEN [p EXCEPT !.calls = Append(@, Call("soil_layer.plant_seed",
                                                 p.target_pos, p.selected_seed, 0)),
                             !.seed_inventory[p.selected_seed] = @ - 1]
              ELSE p
    IN  [p1 EXCEPT !.timers["seed use"].fired = Min(@ + 1, 2),
                   !.calls = <<Call("use_seed", p.target_pos, "", 0)>> \o @]

set_target_pos(p) ==
    LET off == PLAYER_TOOL_OFFSET(Head(p.status))
    IN  [p EXCEPT !.target_pos = [x |-> centerx(p.rect) + off.x,
                                  y |-> centery(p.rect) + off.y]]

\* mutant: the index is kept in range by clamping it to the last frame
animate_clamped(p, dt) ==
    LET f1 == p.frame_index + 4 * dt
        f2 == IF f1 >= 1000 * AnimationLen(p.status)
              THEN 1000 * (AnimationLen(p.status) - 1)
              ELSE f1
    IN  [p EXCEPT !.frame_index = f2,
                  !.image = [status |-> p.status, index |-> int(f2)]]

animate(p, dt) ==
    LET f1 == p.frame_index + 4 * dt
        f2 == IF f1 >= 1000 * AnimationLen(p.status) THEN 0 ELSE f1
    IN  [p EXCEPT !.frame_index = f2,
                  !.image = [status |-> p.status, index |-> int(f2)]]

\* lines 120-138
input_movement(p, keys) ==
    LET v == IF "K_UP" \in keys
             THEN [p EXCEPT !.direction.y = -1000, !.status = <<"up">>]
             ELSE IF "K_DOWN" \in keys
             THEN [p EXCEPT !.direction.y = 1000, !.status = <<"down">>]
             ELSE [p EXCEPT !.direction.y = 0]
    IN  IF "K_LEFT" \in keys
        THEN [v EXCEPT !.direction.x = -1000, !.status = <<"left">>]
        ELSE IF "K_RIGHT" \in keys
        THEN [v EXCEPT !.direction.x = 1000, !.status = <<"right">>]
        ELSE [v EXCEPT !.direction.x = 0]

\* mutant: using the tool does not stop the movement
input_tool_use_moving(p, keys) ==
    IF "K_SPACE" \in keys
    THEN [p EXCEPT !.timers["tool use"] = activate(@),
                   !.frame_index = 0]
    ELSE p

\* mutant: the tool is not used while the seed-use timer runs
input_tool_use_exclusive(p, keys) ==
    IF "K_SPACE" \in keys /\ ~p.timers["seed use"].active
    THEN [p EXCEPT !.timers["tool use"] = activate(@),
                   !.direction = [x |-> 0, y |-> 0],
                   !.frame_index = 0]
    ELSE p

\* lines 140-144
input_tool_use(p, keys) ==
    IF "K_SPACE" \in keys
    THEN [p EXCEPT !.timers["tool use"] = activate(@),
                   !.direction = [x |-> 0, y |-> 0],
                   !.frame_index = 0]
    ELSE p

\* mutant: the tool index wraps at the length of the seed list
input_change_tool_seed_len(p, keys) ==
    IF "K_q" \in keys /\ ~p.timers["tool switch"].active
    THEN LET i == increment_and_modulo(p.tool_index, Len(seeds))
         IN  [p EXCEPT !.timers["tool switch"] = activate(@),
                       !.tool_index = i,
                       !.selected_tool = item(tools, i),
                       !.switches.tool = Min(@ + 1, MaxSwitches)]
    ELSE p

\* mutant: the tool is switched whether or not the cooldown runs
input_change_tool_no_cooldown(p, keys) ==
    IF "K_q" \in keys
    THEN LET i == increment_and_modulo(p.tool_index, Len(tools))
         IN  [p EXCEPT !.timers["tool switch"] = activate(@),
                       !.tool_index = i,
                       !.selected_tool = item(tools, i),
                       !.switches.tool = Min(@ + 1, MaxSwitches)]
    ELSE p

\* lines 146-150
input_change_tool(p, keys) ==
    IF "K_q" \in keys /\ ~p.timers["tool switch"].active
    THEN LET i == increment_and_modulo(p.tool_index, Len(tools))
         IN  [p EXCEPT !.timers["tool switch"] = activate(@),
                       !.tool_index = i,
                       !.selected_tool = item(tools, i),
                       !.switches.tool = Min(@ + 1, MaxSwitches)]
    ELSE p

\* mutant: the seed-use timer is activated only when it is not running
input_seed_use_if_inactive(p, keys) ==
    IF "K_LCTRL" \in keys /\ ~p.timers["seed use"].active
    THEN [p EXCEPT !.timers["seed use"] = activate(@),
                   !.direction = [x |-> 0, y |-> 0],
                   !.frame_index = 0]
    ELSE p

\* lines 152-156
input_seed_use(p, keys) ==
    IF "K_LCTRL" \in keys
    THEN [p EXCEPT !.timers["seed use"] = activate(@),
                   !.direction = [x |-> 0, y |-> 0],
                   !.frame_index = 0]
    ELSE p

\* lines 158-162
input_change_seed(p, keys) ==
    IF "K_w" \in keys /\ ~p.timers["seed switch"].active
    THEN LET i == increment_and_modulo(p.seed_index, Len(seeds))
         IN  [p EXCEPT !.timers["seed switch"] = activate(@),
                       !.seed_index = i,
                       !.selected_seed = item(seeds, i),
                       !.switches.seed = Min(@ + 1, MaxSwitches)]
    ELSE p

\* pygame.sprite.spritecollide(self, interactable_sprites, False): the
\* indices of the sprites whose rect overlaps self.rect, in group order
spritecollide(p, group) ==
    SelectSeq([i \in 1..Len(group) |-> i],
              LAMBDA i : colliderect(p.rect, group[i].rect))

\* mutant: the bed is found but the player is not put to sleep
input_interact_awake(p, keys) ==
    IF "K_RETURN" \in keys
    THEN LET hit == spritecollide(p, interactable_sprites)
             p1 == IF hit /= <<>> /\ interactable_sprites[hit[1]].name = "Trader"
                   THEN [p EXCEPT !.calls = Append(@, Call("toggle_shop", NoPos, "", 0))]
                   ELSE p
         IN  IF hit /= <<>> /\ interactable_sprites[hit[1]].name = "Bed"
             THEN [p1 EXCEPT !.status = <<"left", "idle">>]
             ELSE p1
    ELSE p

\* lines 164-170
input_interact(p, keys) ==
    IF "K_RETURN" \in keys
    THEN LET hit == spritecollide(p, interactable_sprites)
             p1 == IF hit /= <<>> /\ interactable_sprites[hit[1]].name = "Trader"
                   THEN [p EXCEPT !.calls = Append(@, Call("toggle_shop", NoPos, "", 0))]
                   ELSE p
         IN  IF hit /= <<>> /\ interactable_sprites[hit[1]].name = "Bed"
             THEN [p1 EXCEPT !.status = <<"left", "idle">>, !.sleep = TRUE]
             ELSE p1
    ELSE p

\* mutant: input is gated by sleep alone
input_during_tool_use(p, keys) ==
    LET g == IF ~p.sleep
             THEN LET p1 == input_movement(p, keys)
                      p2 == input_tool_use(p1, keys)
                      p3 == input_change_tool(p2, keys)
                      p4 == input_seed_use(p3, keys)
                  IN  input_change_seed(p4, keys)
             ELSE p
    IN  input_interact(g, keys)

input(p, keys) ==
    LET g == IF ~p.timers["tool use"].active /\ ~p.sleep
             THEN LET p1 == input_movement(p, keys)
                      p2 == input_tool_use(p1, keys)
                      p3 == input_change_tool(p2, keys)
                      p4 == input_seed_use(p3, keys)
                  IN  input_change_seed(p4, keys)
             ELSE p
    IN  input_interact(g, keys)

magnitude_is_zero(d) == d.x = 0 /\ d.y = 0

\* mutant: no idle status
set_status_without_idle(p) ==
    IF p.timers["tool use"].active
    THEN [p EXCEPT !.status = Join(split0(@), p.selected_tool)]
    ELSE p

\* mutant: the suffix is appended to the whole status
set_status_no_split(p) ==
    LET p1 == IF magnitude_is_zero(p.direction)
              THEN [p EXCEPT !.status = Join(@, "idle")]
              ELSE p
    IN  IF p1.timers["tool use"].active
        THEN [p1 EXCEPT !.status = Join(@, p1.selected_tool)]
        ELSE p1

set_status(p) ==
    LET p1 == IF magnitude_is_zero(p.direction)
              THEN [p EXCEPT !.status = Join(split0(@), "idle")]
              ELSE p
    IN  IF p1.timers["tool use"].active
        THEN [p1 EXCEPT !.status = Join(split0(@), p1.selected_tool)]
        ELSE p1

RECURSIVE update_timers_from(_, _, _)
update_timers_from(p, dt, i) ==
    IF i > Len(TimerNames) THEN p
    ELSE LET n == TimerNames[i]
             t == p.timers[n]
             p1 == [p EXCEPT !.timers[n] = TimerUpdate(t, dt)]
             p2 == IF ~TimerExpires(t, dt) THEN p1
                   ELSE IF t.func = "use_tool" THEN use_tool(p1)
                   ELSE IF t.func = "use_seed" THEN use_seed(p1)
                   ELSE p1
         IN  update_timers_from(p2, dt, i + 1)

\* mutant: the loop returns after the first timer
update_timers_first_only(p, dt) ==
    LET n == TimerNames[1]
        t == p.timers[n]
        p1 == [p EXCEPT !.timers[n] = TimerUpdate(t, dt)]
    IN  IF TimerExpires(t, dt) /\ t.func = "use_tool" THEN use_tool(p1) ELSE p1

update_timers(p, dt) == update_timers_from(p, dt, 1)

\* mutant: the rect is not moved with the clamped hitbox
resolve_horizontal_rect_stays(p, sprite) ==
    LET h1 == IF p.direction.x > 0 THEN set_right(p.hitbox, left(sprite.hitbox))
              ELSE p.hitbox
        h2 == IF p.direction.x < 0 THEN set_left(h1, right(sprite.hitbox))
              ELSE h1
    IN  [p EXCEPT !.hitbox = h2,
                  !.pos.x = 1000 * centerx(h2)]

\* lines 188-194, for one overlapping sprite
resolve_horizontal(p, sprite) ==
    LET h1 == IF p.direction.x > 0 THEN set_right(p.hitbox, left(sprite.hitbox))
              ELSE p.hitbox
        h2 == IF p.direction.x < 0 THEN set_left(h1, right(sprite.hitbox))
              ELSE h1
    IN  [p EXCEPT !.hitbox = h2,
                  !.rect = set_centerx(@, centerx(h2)),
                  !.pos.x = 1000 * centerx(h2)]

\* mutant: the edges are those of the horizontal case, turned the wrong way
resolve_vertical_swapped(p, sprite) ==
    LET h1 == IF p.direction.y > 0 THEN set_top(p.hitbox, bottom(sprite.hitbox))
              ELSE p.hitbox
        h2 == IF p.direction.y < 0 THEN set_bottom(h1, top(sprite.hitbox))
              ELSE h1
    IN  [p EXCEPT !.hitbox = h2,
                  !.rect = set_centery(@, centery(h2)),
                  !.pos.y = 1000 * centery(h2)]

\* lines 195-201, for one overlapping sprite
resolve_vertical(p, sprite) ==
    LET h1 == IF p.direction.y > 0 THEN set_bottom(p.hitbox, top(sprite.hitbox))
              ELSE p.hitbox
        h2 == IF p.direction.y < 0 THEN set_top(h1, bottom(sprite.hitbox))
              ELSE h1
    IN  [p EXCEPT !.hitbox = h2,
                  !.rect = set_centery(@, centery(h2)),
                  !.pos.y = 1000 * centery(h2)]

RECURSIVE collision_from(_, _, _)
collision_from(p, axis, i) ==
    IF i > Len(collision_sprites) THEN p
    ELSE LET sprite == collision_sprites[i]
             p1 == IF sprite.has_hitbox /\ colliderect(sprite.hitbox, p.hitbox)
                   THEN IF axis = "horizontal" THEN resolve_horizontal(p, sprite)
                        ELSE IF axis = "vertical" THEN resolve_vertical(p, sprite)
                        ELSE p
                   ELSE p
         IN  collision_from(p1, axis, i + 1)

\* mutant: only the horizontal axis is resolved
collision_horizontal_only(p, axis) ==
    IF axis = "horizontal" THEN collision_from(p, axis, 1) ELSE p

collision(p, axis) == collision_from(p, axis, 1)

\* Vector2.normalize of a vector whose components are 0, +-1 or the
\* components of an already normalised such vector
normalize(d) ==
    IF d.x /= 0 /\ d.y /= 0
    THEN [x |-> 707 * Sign(d.x), y |-> 707 * Sign(d.y)]
    ELSE [x |-> 1000 * Sign(d.x), y |-> 1000 * Sign(d.y)]

\* lines 204-206
move_normalize(p) ==
    IF ~magnitude_is_zero(p.direction)
    THEN [p EXCEPT !.direction = normalize(@)]
    ELSE p

\* lines 209-211 (the products are whole thousandths for the frame times used)
step_horizontal(p, dt) ==
    LET x1 == p.pos.x + (p.direction.x * speed * dt) \div 1000
        h1 == set_centerx(p.hitbox, round(x1))
    IN  [p EXCEPT !.pos.x = x1,
                  !.hitbox = h1,
                  !.rect = set_centerx(@, centerx(h1))]

\* lines 215-217
step_vertical(p, dt) ==
    LET y1 == p.pos.y + (p.direction.y * speed * dt) \div 1000
        h1 == set_centery(p.hitbox, round(y1))
    IN  [p EXCEPT !.pos.y = y1,
                  !.hitbox = h1,
                  !.rect = set_centery(@, centery(h1))]

move(p, dt) ==
    LET n == move_normalize(p)
        s == step_horizontal(n, dt)
        h == collision(s, "horizontal")
        v == step_vertical(h, dt)
    IN  collision(v, "vertical")

\* Player.update, up to the call of move
before_move(p, keys, dt) ==
    set_target_pos(update_timers(set_status(input(p, keys)), dt))

\* Player.update
update_player(p, keys, dt) ==
    LET a == input(p, keys)
        b == set_status(a)
        c == update_timers(b, dt)
        d == set_target_pos(c)
        e == move(d, dt)
    IN  animate(e, dt)

\* Player.__init__
new_player(start) ==
    LET st == <<"down", "idle">>
        r == get_rect(ImageW, ImageH, start)
    IN  [status |-> st,
         frame_index |-> 0,
         image |-> [status |-> st, index |-> 0],
         rect |-> r,
         direction |-> [x |-> 0, y |-> 0],
         pos |-> [x |-> 1000 * centerx(r), y |-> 1000 * centery(r)],
         hitbox |-> inflate(r, -126, -70),
         timers |-> [n \in {TimerNames[i] : i \in 1..Len(TimerNames)} |->
                       CASE n = "tool use" -> Timer(ToolUseDuration, "use_tool")
                         [] n = "tool switch" -> Timer(ToolSwitchDuration, "none")
                         [] n = "seed use" -> Timer(SeedUseDuration, "use_seed")
                         [] n = "seed switch" -> Timer(SeedSwitchDuration, "none")],
         tool_index |-> 0,
         selected_tool |-> item(tools, 0),
         target_pos |-> [x |-> centerx(r) + PLAYER_TOOL_OFFSET(Head(st)).x,
                         y |-> centery(r) + PLAYER_TOOL_OFFSET(Head(st)).y],
         seed_index |-> 0,
         selected_seed |-> item(seeds, 0),
         seed_inventory |-> [s \in {"corn", "tomato"} |->
                               IF s = "corn" THEN CornStock ELSE TomatoStock],
         sleep |-> FALSE,
         calls |-> <<>>,
         switches |-> [tool |-> 0, seed |-> 0]]

----------------------------------------------------------------------------
(* The world around the player: obstacles, trees, interactables *)

Sprite(has_hitbox, hb) == [has_hitbox |-> has_hitbox, hitbox |-> hb]
Interactable(name, r) == [name |-> name, rect |-> r]

\* a room around the start position: a thin wall to the east, a sprite
\* without hitbox that covers the room, walls to the north, west and south
ObstaclesRoom ==
    <<Sprite(TRUE, Rect(160, 100, 10, 100)),
      Sprite(FALSE, Rect(0, 0, 400, 400)),
      Sprite(TRUE, Rect(60, 60, 80, 20)),
      Sprite(TRUE, Rect(20, 100, 20, 100)),
      Sprite(TRUE, Rect(60, 220, 80, 20))>>

\* thick walls that touch the hitbox h on all four sides (east, west, north,
\* south): a player that starts with hitbox h is boxed in
ObstaclesBox(h) ==
    <<Sprite(TRUE, Rect(right(h), top(h) - 200, 200, h.h + 400)),
      Sprite(TRUE, Rect(left(h) - 200, top(h) - 200, 200, h.h + 400)),
      Sprite(TRUE, Rect(left(h) - 200, top(h) - 200, h.w + 400, 200)),
      Sprite(TRUE, Rect(left(h) - 200, bottom(h), h.w + 400, 200))>>

\* thick walls near the start position: two to the east, one above the
\* other and the lower one nearer, and one to the north
ObstaclesWalls ==
    <<Sprite(TRUE, Rect(140, -50, 100, 200)),
      Sprite(TRUE, Rect(130, 150, 110, 150)),
      Sprite(TRUE, Rect(-100, 10, 240, 100))>>

\* the orders in which a sprite group may hold the sprites of `sprites`
Orders(sprites) ==
    LET n == Len(sprites)
        perms == {f \in [1..n -> 1..n] : \A i, j \in 1..n : f[i] = f[j] => i = j}
    IN  {[i \in 1..n |-> sprites[f[i]]] : f \in perms}

Trees == <<Rect(80, 180, 40, 40)>>

Interactables ==
    <<Interactable("Bed", Rect(0, 0, 40, 100)),
      Interactable("Trader", Rect(250, 150, 40, 40))>>

StartPos == [x |-> 100, y |-> 150]

InWorld(v) ==
    /\ 1000 * WorldLo <= v.x /\ v.x <= 1000 * WorldHi
    /\ 1000 * WorldLo <= v.y /\ v.y <= 1000 * WorldHi

----------------------------------------------------------------------------
(* State machine *)

Player ==
    [status |-> status, frame_index |-> frame_index, image |-> image,
     rect |-> rect, direction |-> direction, pos |-> pos, hitbox |-> hitbox,
     timers |-> timers, tool_index |-> tool_index,
     selected_tool |-> selected_tool, target_pos |-> target_pos,
     seed_index |-> seed_index, selected_seed |-> selected_seed,
     seed_inventory |-> seed_inventory, sleep |-> sleep, calls |-> calls,
     switches |-> switches]

IsPlayer(p) ==
    /\ status = p.status
    /\ frame_index = p.frame_index
    /\ image = p.image
    /\ rect = p.rect
    /\ direction = p.direction
    /\ pos = p.pos
    /\ hitbox = p.hitbox
    /\ timers = p.timers
    /\ tool_index = p.tool_index
    /\ selected_tool = p.selected_tool
    /\ target_pos = p.target_pos
    /\ seed_index = p.seed_index
    /\ selected_seed = p.selected_seed
    /\ seed_inventory = p.seed_inventory
    /\ sleep = p.sleep
    /\ calls = p.calls
    /\ switches = p.switches

Becomes(p) ==
    /\ status' = p.status
    /\ frame_index' = p.frame_index
    /\ image' = p.image
    /\ rect' = p.rect
    /\ direction' = p.direction
    /\ pos' = p.pos
    /\ hitbox' = p.hitbox
    /\ timers' = p.timers
    /\ tool_index' = p.tool_index
    /\ selected_tool' = p.selected_tool
    /\ target_pos' = p.target_pos
    /\ seed_index' = p.seed_index
    /\ selected_seed' = p.selected_seed
    /\ seed_inventory' = p.seed_inventory
    /\ sleep' = p.sleep
    /\ calls' = p.calls
    /\ switches' = p.switches

InitWith(start, obstacles) ==
    /\ IsPlayer(new_player(start))
    /\ collision_sprites = obstacles
    /\ tree_sprites = Trees
    /\ interactable_sprites = Interactables
    /\ frames = 0

\* one frame: Player.update(dt) with the keys held in this frame
Updated(keys, dt) ==
    LET p == update_player([Player EXCEPT !.calls = <<>>], keys, dt)
        ts == p.timers
    IN  [p EXCEPT !.timers =
           [n \in DOMAIN ts |->
              [ts[n] EXCEPT !.ticked = IF ts[n].armed
                                       THEN Min(@ + dt, ts[n].duration)
                                       ELSE @]]]

Update(keys, dt) ==
    LET p == Updated(keys, dt)
    IN  /\ InWorld(p.pos)
        /\ Becomes(p)
        /\ frames' = Min(frames + 1, MaxFrames)
        /\ UNCHANGED <<collision_sprites, tree_sprites, interactable_sprites>>

\* the frames an input source can produce that holds one of KeySets
Frame(KeySets, Dts) == \E keys \in KeySets, dt \in Dts : Update(keys, dt)

\* every combination of direction keys that input() tells apart
AllDirectionKeys ==
    {v \cup h : v \in {{}, {"K_UP"}, {"K_DOWN"}},
                h \in {{}, {"K_LEFT"}, {"K_RIGHT"}}}

\* the direction keys: none, one, or two that make a diagonal
DirectionKeys ==
    {{}, {"K_UP"}, {"K_DOWN"}, {"K_LEFT"}, {"K_RIGHT"},
     {"K_UP", "K_RIGHT"}, {"K_DOWN", "K_LEFT"}}

\* using tools and seeds while walking right
UseKeys == SUBSET {"K_SPACE", "K_LCTRL", "K_RIGHT"}
Init == InitWith(StartPos, <<>>)
Next == Frame(UseKeys, DtSet)
Spec == Init /\ [][Next]_vars

\* planting and switching seeds
SeedKeys == SUBSET {"K_LCTRL", "K_w"}
NextSeed == Frame(SeedKeys, DtSet)
SpecSeed == Init /\ [][NextSeed]_vars

\* switching tools and seeds, and using the tool
SwitchKeys == SUBSET {"K_q", "K_w", "K_SPACE"}
NextSwitch == Frame(SwitchKeys, DtSet)
SpecSwitch == Init /\ [][NextSwitch]_vars

\* switching tools and seeds during tool use and in bed
CooldownKeys == SUBSET {"K_q", "K_w", "K_SPACE", "K_RETURN"}
NextCooldown == Frame(CooldownKeys, DtSet)
SpecCooldown == Init /\ [][NextCooldown]_vars

\* boxed in: turning, using and switching tools, going to bed
StatusKeys ==
    {d \cup a : d \in {{}, {"K_UP"}, {"K_DOWN"}, {"K_LEFT"}, {"K_RIGHT"},
                        {"K_UP", "K_RIGHT"}},
                a \in {{}, {"K_SPACE"}, {"K_q"}, {"K_RETURN"},
                        {"K_SPACE", "K_q"}}}
InitStatus == InitWith(StartPos, ObstaclesBox(new_player(StartPos).hitbox))
NextStatus == Frame(StatusKeys, DtSet)
SpecStatus == InitStatus /\ [][NextStatus]_vars

\* the first MaxFrames frames of walking among obstacles
InitMove == InitWith(StartPos, ObstaclesRoom)
NextMove == frames < MaxFrames /\ Frame(DirectionKeys, MoveDtSet)
SpecMove == InitMove /\ [][NextMove]_vars

\* the first frames of walking in every direction among thick walls, held
\* by the sprite group in any order
InitWalls == \E order \in Orders(ObstaclesWalls) : InitWith(StartPos, order)
NextWalls == frames < MaxFrames /\ Frame(AllDirectionKeys, MoveDtSet)
SpecWalls == InitWalls /\ [][NextWalls]_vars

\* walking left and right past the bed, and going to bed
SleepKeys == SUBSET {"K_LEFT", "K_RIGHT", "K_RETURN"}
NextSleep == Frame(SleepKeys, DtSet)
SpecSleep == Init /\ [][NextSleep]_vars

----------------------------------------------------------------------------
(* Vocabulary of the properties *)

Facings == {"up", "down", "left", "right"}
Activities == {"idle", "hoe", "axe", "water"}
Zero == [x |-> 0, y |-> 0]

\* the entries of a calls log that name fn
CallsTo(log, fn) == SelectSeq(log, LAMBDA c : c.fn = fn)

\* the player as input() leaves it when `keys` are held in the next frame
AfterInput(keys) == input([Player EXCEPT !.calls = <<>>], keys)

\* the sprites with a hitbox that overlaps the rectangle h
Overlapped(h) ==
    {i \in 1..Len(collision_sprites) :
       collision_sprites[i].has_hitbox /\ colliderect(collision_sprites[i].hitbox, h)}

EndsIdle(st) == Len(st) = 2 /\ st[2] = "idle"

\* the first interactable that overlaps the player's rect is the bed
BedFirst ==
    LET hit == spritecollide(Player, interactable_sprites)
    IN  hit /= <<>> /\ interactable_sprites[hit[1]].name = "Bed"

----------------------------------------------------------------------------
(* C1: timer fire-once.  For the tool-use and the seed-use timer: the       *)
(* callback is never invoked before an activation; once the frame time      *)
(* since the latest activation has reached the duration the callback has    *)
(* been invoked exactly once and the timer is inactive, and it stays at     *)
(* exactly once until the next activation; before that time it has not      *)
(* been invoked.                                                            *)
C1_FireOnce ==
    \A n \in {"tool use", "seed use"} :
      LET t == timers[n]
      IN  /\ t.fired <= 1
          /\ ~t.armed => (t.fired = 0 /\ ~t.active)
          /\ (t.armed /\ t.ticked >= t.duration) => (t.fired = 1 /\ ~t.active)
          /\ (t.armed /\ t.ticked < t.duration) => (t.fired = 0 /\ t.active)
          /\ Len(CallsTo(calls, t.func)) <= 1

\* both callbacks have fired once, and the latest frame fired nothing more
C1_Witness ==
    /\ timers["tool use"].fired = 1 /\ ~timers["tool use"].active
    /\ timers["seed use"].fired = 1 /\ ~timers["seed use"].active
    /\ calls = <<>>

(* C2: timer re-arm.  When the use-seed key is held while the seed-use      *)
(* timer is active (and input is not gated), input() leaves the timer       *)
(* active with elapsed time 0 and invokes no callback; after the frame the  *)
(* timer has the frame time alone as elapsed time (the prior deadline is    *)
(* gone), and the callback fires in that frame only if the frame time       *)
(* itself is a full duration.  In every state the elapsed time of the       *)
(* active seed-use timer is the time since its latest activation, and the   *)
(* callback has fired only if that time reached the duration.               *)
C2_Rearm ==
    LET t == timers["seed use"]
    IN  /\ t.active => t.elapsed = t.ticked
        /\ t.fired >= 1 => t.ticked >= t.duration
        /\ \A keys \in UseKeys, dt \in DtSet :
              ("K_LCTRL" \in keys /\ t.active /\ ~timers["tool use"].active /\ ~sleep)
              => LET a == AfterInput(keys)
                     r == Updated(keys, dt)
                 IN  /\ a.timers["seed use"].active
                     /\ a.timers["seed use"].elapsed = 0
                     /\ CallsTo(a.calls, "use_seed") = <<>>
                     /\ a.seed_inventory = seed_inventory
                     /\ dt < t.duration =>
                           /\ r.timers["seed use"].active
                           /\ r.timers["seed use"].elapsed = dt
                           /\ CallsTo(r.calls, "use_seed") = <<>>
                     /\ dt >= t.duration =>
                           /\ ~r.timers["seed use"].active
                           /\ Len(CallsTo(r.calls, "use_seed")) = 1

\* the seed-use timer runs after an activation that found it active
C2_Witness ==
    /\ timers["seed use"].rearmed
    /\ timers["seed use"].active
    /\ timers["seed use"].fired = 0
    /\ frames >= 3

(* C3: cyclic index.  After n successful switches (n below the counting     *)
(* bound) tool_index is n mod len(tools) and seed_index is n mod            *)
(* len(seeds); the indices are always in range and selected_tool and        *)
(* selected_seed are the entries at the indices.                            *)
C3_Cyclic ==
    /\ tool_index \in 0..(Len(tools) - 1)
    /\ seed_index \in 0..(Len(seeds) - 1)
    /\ selected_tool = item(tools, tool_index)
    /\ selected_seed = item(seeds, seed_index)
    /\ switches.tool < MaxSwitches => tool_index = switches.tool % Len(tools)
    /\ switches.seed < MaxSwitches => seed_index = switches.seed % Len(seeds)

\* both indices have wrapped around
C3_Witness ==
    /\ switches.tool = 3 /\ tool_index = 0
    /\ switches.seed = 3 /\ seed_index = 1

(* C4: tool-use lock.  After every frame in which the tool-use timer is     *)
(* active, direction is (0, 0) and status is '<facing>_<selected_tool>'.    *)
C4_ToolLock ==
    timers["tool use"].active =>
      /\ direction = Zero
      /\ Head(status) \in Facings
      /\ status = <<Head(status), selected_tool>>

\* well into a tool action, facing left with the axe selected
C4_Witness ==
    /\ timers["tool use"].active
    /\ timers["tool use"].elapsed >= 200
    /\ status = <<"left", "axe">>

(* C5 as stated: after every frame, and initially, when direction is        *)
(* (0, 0) and the tool-use timer is not active, status ends in '_idle'.     *)
C5_Original ==
    (direction = Zero /\ ~timers["tool use"].active) => EndsIdle(status)

(* C5 as amended: after every frame, and initially, when direction is       *)
(* (0, 0), the tool-use timer is not active and it did not expire in that   *)
(* frame (use_tool was not invoked in it), status ends in '_idle'; after    *)
(* the frame in which it expired, status is still                           *)
(* '<facing>_<selected_tool>'.                                              *)
C5_IdleUnlessExpired ==
    (direction = Zero /\ ~timers["tool use"].active) =>
      IF CallsTo(calls, "use_tool") = <<>>
      THEN EndsIdle(status)
      ELSE status = <<Head(status), selected_tool>>

\* idle again after a tool action, facing up
C5_Witness ==
    /\ direction = Zero
    /\ ~timers["tool use"].active
    /\ timers["tool use"].fired = 1
    /\ CallsTo(calls, "use_tool") = <<>>
    /\ status = <<"up", "idle">>

(* C6 as stated: when the hitbox is entirely left of an obstacle hitbox O,  *)
(* with overlapping vertical extent, and the frame moves right, then after  *)
(* the frame hitbox.right <= O.left, whatever the step size.                *)
C6_Original ==
    [][\A i \in 1..Len(collision_sprites) :
         LET O == collision_sprites[i].hitbox
         IN  (/\ collision_sprites[i].has_hitbox
              /\ right(hitbox) <= left(O)
              /\ top(hitbox) < bottom(O) /\ top(O) < bottom(hitbox)
              /\ direction'.x > 0)
             => right(hitbox') <= left(O)]_vars

(* C7: edge clamping.  When the step on one axis takes the hitbox from      *)
(* overlapping no obstacle to overlapping a single one (exactly one after   *)
(* the step, and none once clamped against it), the resolution on that      *)
(* axis puts the leading edge of the hitbox on the facing edge of the       *)
(* obstacle, changes no coordinate of the other axis, and sets pos and the  *)
(* rect centre on that axis to the hitbox centre.                           *)
ClampedHorizontal(b, c, d) ==
    \A i \in 1..Len(collision_sprites) :
      (/\ Overlapped(b.hitbox) = {}
       /\ Overlapped(c.hitbox) = {i}
       /\ Overlapped(resolve_horizontal(c, collision_sprites[i]).hitbox) = {})
      => LET O == collision_sprites[i].hitbox
         IN  /\ c.direction.x /= 0
             /\ c.direction.x > 0 => right(d.hitbox) = left(O)
             /\ c.direction.x < 0 => left(d.hitbox) = right(O)
             /\ d.hitbox.y = c.hitbox.y /\ d.rect.y = c.rect.y /\ d.pos.y = c.pos.y
             /\ d.pos.x = 1000 * centerx(d.hitbox)
             /\ centerx(d.rect) = centerx(d.hitbox)

ClampedVertical(b, c, d) ==
    \A i \in 1..Len(collision_sprites) :
      (/\ Overlapped(b.hitbox) = {}
       /\ Overlapped(c.hitbox) = {i}
       /\ Overlapped(resolve_vertical(c, collision_sprites[i]).hitbox) = {})
      => LET O == collision_sprites[i].hitbox
         IN  /\ c.direction.y /= 0
             /\ c.direction.y > 0 => bottom(d.hitbox) = top(O)
             /\ c.direction.y < 0 => top(d.hitbox) = bottom(O)
             /\ d.hitbox.x = c.hitbox.x /\ d.rect.x = c.rect.x /\ d.pos.x = c.pos.x
             /\ d.pos.y = 1000 * centery(d.hitbox)
             /\ centery(d.rect) = centery(d.hitbox)

C8_Fire ==
    LET plants == CallsTo(calls', "soil_layer.plant_seed")
        s == selected_seed'
    IN  IF CallsTo(calls', "use_seed") = <<>>
        THEN plants = <<>> /\ seed_inventory' = seed_inventory
        ELSE IF seed_inventory[s] = 0
        THEN plants = <<>> /\ seed_inventory' = seed_inventory
        ELSE /\ Len(plants) = 1
             /\ plants[1].seed = s
             /\ seed_inventory' = [seed_inventory EXCEPT ![s] = @ - 1]

C8_SeedUse ==
    /\ [](\A s \in DOMAIN seed_inventory : seed_inventory[s] >= 0)
    /\ [][C8_Fire]_vars

\* use_seed has just been invoked with no corn left, and planted nothing
C8_Witness ==
    /\ selected_seed = "corn"
    /\ seed_inventory["corn"] = 0
    /\ CallsTo(calls, "use_seed") /= <<>>
    /\ CallsTo(calls, "soil_layer.plant_seed") = <<>>

(* C9: the hitbox and the rect have the same centre in every state.         *)
C9_SameCentre == center(hitbox) = center(rect)

\* moving left, stopped by the west wall
C9_Witness ==
    LET O == collision_sprites[4].hitbox
    IN  /\ direction.x < 0
        /\ left(hitbox) = right(O)
        /\ top(hitbox) < bottom(O) /\ top(O) < bottom(hitbox)
        /\ frames >= 2

(* C10: status is always a facing alone or a facing followed by exactly     *)
(* one of idle, hoe, axe, water: a key of the animation table.              *)
C10_WellFormed ==
    /\ Len(status) \in 1..2
    /\ Head(status) \in Facings
    /\ Len(status) = 2 => status[2] \in Activities
    /\ status \in AnimationKeys

\* walking up: a bare facing
C10_Witness == status = <<"up">> /\ direction.y < 0

(* C11 as stated: in every frame at whose end the player sleeps (the frame  *)
(* in which sleep becomes true and every later one), direction is (0, 0)    *)
(* after the frame and pos, hitbox and rect are unchanged by the frame.     *)
C11_Original ==
    [][sleep' => (/\ direction' = Zero
                  /\ pos' = pos /\ hitbox' = hitbox /\ rect' = rect)]_vars

(* C12 as stated: after any frame in which K_RETURN is held and the first   *)
(* interactable overlapping the rect is the bed, sleep is true and status   *)
(* is 'left_idle', also when the tool-use timer is active or the player     *)
(* already sleeps.                                                          *)
C12_Original ==
    \A keys \in StatusKeys, dt \in DtSet :
      ("K_RETURN" \in keys /\ BedFirst)
      => LET r == Updated(keys, dt)
         IN  r.sleep /\ r.status = <<"left", "idle">>

(* C12 as amended: after any frame in which K_RETURN is held and the first  *)
(* interactable overlapping the rect is the bed, sleep is true and the      *)
(* facing is left, whatever the gating; status is 'left_idle' unless the    *)
(* tool-use timer is active when set_status runs, and then it is            *)
(* 'left_<selected_tool>'.                                                  *)
C12_BedUnlessTool ==
    \A keys \in StatusKeys, dt \in DtSet :
      ("K_RETURN" \in keys /\ BedFirst)
      => LET a == AfterInput(keys)
             r == Updated(keys, dt)
         IN  /\ a.sleep /\ a.status = <<"left", "idle">>
             /\ r.sleep
             /\ r.status = IF a.timers["tool use"].active
                           THEN <<"left", r.selected_tool>>
                           ELSE <<"left", "idle">>

\* gone to bed in the middle of a tool action with the axe
C12_Witness ==
    /\ sleep
    /\ timers["tool use"].active
    /\ status = <<"left", "axe">>

(* C13 as stated, for an input source that holds the same keys in every    *)
(* frame: use_seed is eventually invoked once the seed-use timer is active. *)
(* update is deterministic, so a frame that starts with the timer active,   *)
(* invokes no use_seed and leaves the player exactly as it found it         *)
(* repeats for ever under that input, and use_seed is never invoked; the    *)
(* claim says that no reachable state has such a frame.                     *)
C13_Original ==
    \A keys \in SeedKeys, dt \in DtSet :
      timers["seed use"].active
      => LET r == Updated(keys, dt)
         IN  ~(/\ CallsTo(r.calls, "use_seed") = <<>>
               /\ r.timers["seed use"].active
               /\ [r EXCEPT !.calls = <<>>] = [Player EXCEPT !.calls = <<>>])

(* C14: the tool-use and the seed-use timer can be active together.  When   *)
(* input is not gated and K_SPACE is held in a frame shorter than both      *)
(* durations, and either K_LCTRL is held too or the seed-use timer is       *)
(* running and does not expire in that frame, both timers are active after  *)
(* the frame.                                                               *)
C14_Overlap ==
    \A keys \in UseKeys, dt \in DtSet :
      (/\ ~timers["tool use"].active /\ ~sleep
       /\ "K_SPACE" \in keys
       /\ dt < ToolUseDuration /\ dt < SeedUseDuration
       /\ \/ "K_LCTRL" \in keys
          \/ /\ timers["seed use"].active
             /\ timers["seed use"].elapsed + dt < SeedUseDuration)
      => LET r == Updated(keys, dt)
         IN  r.timers["tool use"].active /\ r.timers["seed use"].active

\* both timers run, the seed-use timer for longer than the tool-use timer
C14_Witness ==
    /\ timers["tool use"].active
    /\ timers["seed use"].active
    /\ timers["seed use"].elapsed > timers["tool use"].elapsed

(* C15 as stated: whenever use_tool or use_seed is invoked, target_pos is   *)
(* the rect centre at that moment plus the tool offset of the facing at     *)
(* that moment.  The callbacks are invoked by update_timers, before move:   *)
(* the rect is then the one the frame started with, and the facing is the   *)
(* one the frame ends with (nothing after set_status changes the status).   *)
C15_Original ==
    [][\A i \in 1..Len(calls') :
         calls'[i].fn \in {"use_tool", "use_seed"}
         => LET off == PLAYER_TOOL_OFFSET(Head(status'))
            IN  calls'[i].pos = [x |-> centerx(rect) + off.x,
                                 y |-> centery(rect) + off.y]]_vars

(* C16 as stated: after every frame in which the seed-use timer is active,  *)
(* direction is (0, 0), whatever direction keys are held while it runs.     *)
C16_Original ==
    timers["seed use"].active => direction = Zero

(* C17: switch cooldown.  A frame changes tool_index only if K_q is held    *)
(* and, when the frame starts, the tool-switch timer and the tool-use       *)
(* timer are inactive and the player does not sleep; the change is one      *)
(* cyclic step, it activates the tool-switch timer in that frame, and the   *)
(* frame time since the previous change is at least the tool-switch         *)
(* duration.  While the tool-switch timer is active less than its duration  *)
(* has passed since the latest change and no frame changes tool_index.      *)
(* The same holds for seed_index, K_w and the seed-switch timer.            *)
CooledDown(index, r_index, n, key, keys, t, r_t, dt) ==
    /\ t.active => (t.armed /\ t.ticked < t.duration /\ t.elapsed = t.ticked)
    /\ r_index /= index
       => /\ key \in keys
          /\ ~t.active /\ ~timers["tool use"].active /\ ~sleep
          /\ r_index = (index + 1) % n
          /\ t.armed => t.ticked >= t.duration
          /\ r_t.armed /\ ~r_t.rearmed
          /\ r_t.ticked = Min(dt, t.duration)
          /\ r_t.active = (dt < t.duration)

C17_Cooldown ==
    \A keys \in CooldownKeys, dt \in DtSet :
      LET r == Updated(keys, dt)
      IN  /\ CooledDown(tool_index, r.tool_index, Len(tools), "K_q", keys,
                        timers["tool switch"], r.timers["tool switch"], dt)
          /\ CooledDown(seed_index, r.seed_index, Len(seeds), "K_w", keys,
                        timers["seed switch"], r.timers["seed switch"], dt)

\* in bed, with the tool switched twice and the seed once, in the cooldown
\* of the latest tool switch
C17_Witness ==
    /\ switches.tool >= 2
    /\ timers["tool switch"].active
    /\ timers["tool switch"].elapsed > 0
    /\ switches.seed >= 1
    /\ sleep

(* C18: no penetration.  When the obstacles overlap no other obstacle, no   *)
(* frame time moves the player further on an axis than the smallest extent  *)
(* of an obstacle on that axis, and the hitbox overlaps no obstacle when a  *)
(* frame starts, then the hitbox overlaps no obstacle after the frame, for  *)
(* every direction of movement and every order of the obstacles.            *)
ObstaclesApart ==
    \A i, j \in 1..Len(collision_sprites) :
      (i /= j /\ collision_sprites[i].has_hitbox /\ collision_sprites[j].has_hitbox)
      => ~colliderect(collision_sprites[i].hitbox, collision_sprites[j].hitbox)

StepsFit ==
    \A i \in 1..Len(collision_sprites), dt \in MoveDtSet :
      collision_sprites[i].has_hitbox
      => /\ speed * dt <= 1000 * collision_sprites[i].hitbox.w
         /\ speed * dt <= 1000 * collision_sprites[i].hitbox.h

C18_NoPenetration ==
    [][(ObstaclesApart /\ StepsFit /\ Overlapped(hitbox) = {})
       => Overlapped(hitbox') = {}]_vars

\* walking up and right, stopped in the corner of the nearer east wall and
\* the north wall
C18_Witness ==
    /\ direction.x > 0 /\ direction.y < 0
    /\ right(hitbox) = left(ObstaclesWalls[2].hitbox)
    /\ top(hitbox) = bottom(ObstaclesWalls[3].hitbox)
    /\ Overlapped(hitbox) = {}

(* C19: animation index in range.  The image is always the one animate()    *)
(* picked for the current status, at index floor(frame_index), and that     *)
(* index is at least 0 and below the number of frames of the status, every  *)
(* status having at least one frame.  A frame leaves frame_index either     *)
(* advanced by 4 * dt (from its value, or from the 0 that input() reset it  *)
(* to) and still below the number of frames, or at 0: it wraps, and is not  *)
(* clamped to the last frame.                                               *)
C19_Selected ==
    /\ AnimationLen(status) >= 1
    /\ image.status = status
    /\ image.index = int(frame_index)
    /\ 0 <= image.index /\ image.index < AnimationLen(status)

C19_Wraps ==
    \/ frame_index' = 0
    \/ \E dt \in DtSet :
         /\ frame_index' \in {frame_index + 4 * dt, 4 * dt}
         /\ frame_index' < 1000 * AnimationLen(status')

C19_IndexInRange == []C19_Selected /\ [][C19_Wraps]_vars

\* the last frame of a walking animation is shown: the next frame wraps,
\* also when the status changes to one with fewer frames
C19_Witness ==
    /\ Len(status) = 1
    /\ image.index = 3

(* C20: the selected tool is stable during a tool action.  A frame that     *)
(* starts with the tool-use timer active (from the end of the frame that    *)
(* activated it up to and including the frame in which use_tool is          *)
(* invoked) changes neither tool_index nor selected_tool; the status at     *)
(* the start of such a frame names the selected tool, and use_tool, when    *)
(* the frame invokes it, calls the collaborator of that very tool.          *)
ToolCalls(tool) ==
    CASE tool = "hoe" -> {"soil_layer.get_hit"}
      [] tool = "axe" -> {"tree.damage"}
      [] tool = "water" -> {"water_sound.play", "soil_layer.water"}

C20_Stable ==
    timers["tool use"].active
    => /\ tool_index' = tool_index
       /\ selected_tool' = selected_tool
       /\ selected_tool = item(tools, tool_index)
       /\ status = <<Head(status), selected_tool>>
       /\ CallsTo(calls', "use_tool") /= <<>>
          => /\ \A i \in 1..Len(tools) : \A fn \in ToolCalls(tools[i]) :
                  tools[i] /= selected_tool => CallsTo(calls', fn) = <<>>
             /\ selected_tool /= "axe"
                => \A fn \in ToolCalls(selected_tool) : CallsTo(calls', fn) /= <<>>

C20_ToolStable == [][C20_Stable]_vars

\* the water action has just ended, after a switch of the tool in the frame
\* that started it
C20_Witness ==
    /\ status = <<"down", "water">>
    /\ CallsTo(calls, "soil_layer.water") /= <<>>
    /\ switches.tool = 2
====
